---- MODULE Spec2Model ----
(***************************************************************************)
(* Model of the curie crate (src/src/lib.rs): the PrefixMapping registry,  *)
(* CURIE expansion and IRI contraction.                                     *)
(*                                                                          *)
(* A string is a sequence of characters; a character is a one-element       *)
(* token.  "U+E9" stands for a character whose UTF-8 encoding is two bytes  *)
(* long; every other character of the alphabets is ASCII (one byte).        *)
(***************************************************************************)
EXTENDS Integers, Sequences, FiniteSets, TLC

\* default, mapping: the fields of PrefixMapping.
\* call: the last method called, with its arguments; ret: what it returned.
\* pre: the fields of PrefixMapping as they were when that call was made.
VARIABLES default, mapping, call, ret, pre

vars == <<default, mapping, call, ret, pre>>

(***************************************************************************)
(* Bounds and input universes.                                              *)
(***************************************************************************)
MaxBaseLen == 2
MaxRefLen == 1
MaxTextLen == 3
MaxIriLen == MaxBaseLen + MaxRefLen

RECURSIVE Strs(_, _)
Strs(A, n) ==
    IF n = 0 THEN {<<>>}
    ELSE LET S == Strs(A, n - 1)
         IN  S \cup {Append(s, c) : s \in S, c \in A}

COLON == ":"
RESERVED == <<"_">>

BaseAlphabet == {"a"}
RefAlphabet == {"a", "b"}
TextAlphabet == {"p", COLON, "U+E9"}

Names == {<<>>, <<"U+E9">>, RESERVED}
Bases == Strs(BaseAlphabet, MaxBaseLen)
Refs == Strs(RefAlphabet, MaxRefLen)
Iris == Strs(RefAlphabet, MaxIriLen)
Texts == Strs(TextAlphabet, MaxTextLen)

(***************************************************************************)
(* Option and Result values.                                                *)
(***************************************************************************)
None == [some |-> FALSE, v |-> <<>>]
Some(x) == [some |-> TRUE, v |-> x]

Ok(x) == [tag |-> "Ok", val |-> x]
\* Ok of a Result whose value is a Curie (shrink_iri).
OkCurie(c) == [tag |-> "Ok", curie |-> c]
Err(e) == [tag |-> "Err", val |-> e]
Panic == [tag |-> "Panic", val |-> "slice index is not a char boundary"]
Unit == [tag |-> "Unit", val |-> <<>>]

Curie(prefix, reference) == [prefix |-> prefix, reference |-> reference]

(***************************************************************************)
(* str primitives.                                                          *)
(***************************************************************************)
\* str::starts_with with a string pattern.
StartsWith(s, pat) ==
    /\ Len(pat) <= Len(s)
    /\ SubSeq(s, 1, Len(pat)) = pat

\* str::trim_left_matches with a string pattern: the pattern is removed from
\* the front as long as it matches; an empty pattern removes nothing.
RECURSIVE TrimLeftMatches(_, _)
TrimLeftMatches(s, pat) ==
    IF pat # <<>> /\ StartsWith(s, pat)
    THEN TrimLeftMatches(SubSeq(s, Len(pat) + 1, Len(s)), pat)
    ELSE s

\* char::len_utf8.
LenUtf8(c) == IF c = "U+E9" THEN 2 ELSE 1

\* The UTF-8 bytes of a string; byte k of character c is <<c, k>>.
RECURSIVE Utf8(_)
Utf8(s) ==
    IF s = <<>> THEN <<>>
    ELSE [k \in 1..LenUtf8(Head(s)) |-> <<Head(s), k>>] \o Utf8(Tail(s))

\* str::is_char_boundary, on a byte offset counted from 0.
IsCharBoundary(bytes, i) ==
    \/ i = 0
    \/ i = Len(bytes)
    \/ i < Len(bytes) /\ bytes[i + 1][2] = 1

RECURSIVE Decode(_)
Decode(bytes) ==
    IF bytes = <<>> THEN <<>>
    ELSE IF Head(bytes)[2] = 1
         THEN <<Head(bytes)[1]>> \o Decode(Tail(bytes))
         ELSE Decode(Tail(bytes))

\* curie_str.chars().position(|c| c == ':'), counted from 0.
CharsPosition(s) ==
    IF \E i \in 1..Len(s) : s[i] = COLON
    THEN Some((CHOOSE i \in 1..Len(s) :
                  /\ s[i] = COLON
                  /\ \A j \in 1..(i - 1) : s[j] # COLON) - 1)
    ELSE None

(***************************************************************************)
(* PrefixMapping: pure parts of the methods.                                *)
(***************************************************************************)
\* HashMap::insert.
Insert(m, k, v) == [n \in (DOMAIN m) \cup {k} |-> IF n = k THEN v ELSE m[n]]

\* HashMap::remove.
Remove(m, k) == [n \in (DOMAIN m) \ {k} |-> m[n]]

\* The iteration orders a HashMap may present its keys in.
IterOrders(m) ==
    {o \in [1..Cardinality(DOMAIN m) -> DOMAIN m] :
        \A i, j \in DOMAIN o : i # j => o[i] # o[j]}

\* Mutant: an empty prefix is treated like an absent one.
expand_exploded_curie_EmptyIsAbsent(d, m, prefix, reference) ==
    IF prefix.some /\ prefix.v # <<>>
    THEN IF prefix.v \in DOMAIN m
         THEN Ok(m[prefix.v] \o reference)
         ELSE Err("Invalid")
    ELSE IF d.some
         THEN Ok(d.v \o reference)
         ELSE Err("MissingDefault")

expand_exploded_curie(d, m, prefix, reference) ==
    IF prefix.some
    THEN IF prefix.v \in DOMAIN m
         THEN Ok(m[prefix.v] \o reference)
         ELSE Err("Invalid")
    ELSE IF d.some
         THEN Ok(d.v \o reference)
         ELSE Err("MissingDefault")

expand_curie(d, m, curie) ==
    expand_exploded_curie(d, m, curie.prefix, curie.reference)

expand_curie_string(d, m, curie_str) ==
    LET separator_idx == CharsPosition(curie_str)
        bytes == Utf8(curie_str)
    IN  IF separator_idx.some
        THEN IF ~IsCharBoundary(bytes, separator_idx.v)
                \/ ~IsCharBoundary(bytes, separator_idx.v + 1)
             THEN Panic
             ELSE expand_curie(d, m,
                    Curie(Some(Decode(SubSeq(bytes, 1, separator_idx.v))),
                          Decode(SubSeq(bytes, separator_idx.v + 2, Len(bytes)))))
        ELSE expand_curie(d, m, Curie(None, curie_str))

\* The loop of shrink_iri over the mapping, visiting the keys in order o
\* from position i on.
RECURSIVE ShrinkLoop(_, _, _, _)
ShrinkLoop(m, o, i, iri) ==
    IF i > Len(o) THEN Err("Unable to shorten")
    ELSE IF StartsWith(iri, m[o[i]])
         THEN OkCurie(Curie(Some(o[i]), TrimLeftMatches(iri, m[o[i]])))
         ELSE ShrinkLoop(m, o, i + 1, iri)

\* Mutant: the default base is compared for equality, not as a prefix.
shrink_iri_DefaultEq(d, m, o, iri) ==
    IF d.some /\ iri = d.v
    THEN OkCurie(Curie(None, TrimLeftMatches(iri, d.v)))
    ELSE IF d.some THEN Err("Unable to shorten") ELSE ShrinkLoop(m, o, 1, iri)

\* Mutant: the registered prefixes are tried before the default base.
shrink_iri_MappingFirst(d, m, o, iri) ==
    IF ShrinkLoop(m, o, 1, iri).tag = "Ok"
    THEN ShrinkLoop(m, o, 1, iri)
    ELSE IF d.some /\ StartsWith(iri, d.v)
         THEN OkCurie(Curie(None, TrimLeftMatches(iri, d.v)))
         ELSE Err("Unable to shorten")

shrink_iri(d, m, o, iri) ==
    IF d.some /\ StartsWith(iri, d.v)
    THEN OkCurie(Curie(None, TrimLeftMatches(iri, d.v)))
    ELSE ShrinkLoop(m, o, 1, iri)

\* Mutant: the reserved prefix is not rejected.
add_prefix_NoReservedCheck(m, prefix, value) ==
    [mapping |-> Insert(m, prefix, value), ret |-> Ok(<<>>)]

\* Mutant: an existing key keeps its first value.
add_prefix_KeepFirst(m, prefix, value) ==
    IF prefix = RESERVED
    THEN [mapping |-> m, ret |-> Err("ReservedPrefix")]
    ELSE IF prefix \in DOMAIN m
         THEN [mapping |-> m, ret |-> Ok(<<>>)]
         ELSE [mapping |-> Insert(m, prefix, value), ret |-> Ok(<<>>)]

\* add_prefix: the mapping it leaves and the value it returns.
add_prefix(m, prefix, value) ==
    IF prefix = RESERVED
    THEN [mapping |-> m, ret |-> Err("ReservedPrefix")]
    ELSE [mapping |-> Insert(m, prefix, value), ret |-> Ok(<<>>)]

\* remove_prefix: the mapping it leaves.
remove_prefix(m, prefix) == Remove(m, prefix)

(***************************************************************************)
(* The state machine: one action per public method.                         *)
(***************************************************************************)
Fields == [default |-> default, mapping |-> mapping]

Init ==
    /\ default = None
    /\ mapping = <<>>
    /\ call = [op |-> "default"]
    /\ ret = Unit
    /\ pre = [default |-> None, mapping |-> <<>>]

SetDefault ==
    \E d \in Bases :
        /\ pre' = Fields
        /\ default' = Some(d)
        /\ call' = [op |-> "set_default", default |-> d]
        /\ ret' = Unit
        /\ UNCHANGED mapping

AddPrefix ==
    \E prefix \in Names, value \in Bases :
        /\ pre' = Fields
        /\ mapping' = add_prefix(mapping, prefix, value).mapping
        /\ call' = [op |-> "add_prefix", prefix |-> prefix, value |-> value]
        /\ ret' = add_prefix(mapping, prefix, value).ret
        /\ UNCHANGED default

RemovePrefix ==
    \E prefix \in Names :
        /\ pre' = Fields
        /\ mapping' = remove_prefix(mapping, prefix)
        /\ call' = [op |-> "remove_prefix", prefix |-> prefix]
        /\ ret' = Unit
        /\ UNCHANGED default

ExpandCurieString ==
    \E curie_str \in Texts :
        /\ pre' = Fields
        /\ call' = [op |-> "expand_curie_string", curie_str |-> curie_str]
        /\ ret' = expand_curie_string(default, mapping, curie_str)
        /\ UNCHANGED <<default, mapping>>

ExpandCurie ==
    \E prefix \in {None} \cup {Some(n) : n \in Names}, reference \in Refs :
        /\ pre' = Fields
        /\ call' = [op |-> "expand_curie", curie |-> Curie(prefix, reference)]
        /\ ret' = expand_curie(default, mapping, Curie(prefix, reference))
        /\ UNCHANGED <<default, mapping>>

ShrinkIri ==
    \E iri \in Iris, o \in IterOrders(mapping) :
        /\ pre' = Fields
        /\ call' = [op |-> "shrink_iri", iri |-> iri]
        /\ ret' = shrink_iri(default, mapping, o, iri)
        /\ UNCHANGED <<default, mapping>>

Next ==
    \/ SetDefault
    \/ AddPrefix
    \/ RemovePrefix
    \/ ExpandCurieString
    \/ ExpandCurie
    \/ ShrinkIri

Spec == Init /\ [][Next]_vars

TypeOK ==
    /\ default \in {None} \cup {Some(d) : d \in Bases}
    /\ DOMAIN mapping \subseteq Names
    /\ \A n \in DOMAIN mapping : mapping[n] \in Bases


(***************************************************************************)
(* Claims.                                                                  *)
(***************************************************************************)
NoColon(s) == \A i \in 1..Len(s) : s[i] # COLON

\* The split of a text at its first colon, character by character:
\* Curie(Some(text[0..i]), text[i+1..]), or Curie(None, text) without a colon.
SplitAtFirstColon(s) ==
    IF NoColon(s) THEN Curie(None, s)
    ELSE LET i == CHOOSE k \in 1..Len(s) : s[k] = COLON /\ NoColon(SubSeq(s, 1, k - 1))
         IN  Curie(Some(SubSeq(s, 1, i - 1)), SubSeq(s, i + 1, Len(s)))

\* Some base of the registry other than that of name p is a prefix of iri.
OtherBaseIsPrefix(p, iri) ==
    \/ \E q \in DOMAIN mapping \ {p} : StartsWith(iri, mapping[q])
    \/ default.some /\ StartsWith(iri, default.v)

\* C1: prefix round trip.  Whenever p is mapped to base and r has no colon,
\* shrink_iri of the expansion base + r of Curie(Some(p), r) returns
\* Ok(Curie(Some(p), r)), provided no other base of the registry (the default
\* base counted among them) is a prefix of base + r.
C1_PrefixRoundTrip ==
    call.op = "shrink_iri" =>
        \A p \in DOMAIN mapping, r \in Refs :
            ( /\ NoColon(r)
              /\ expand_curie(default, mapping, Curie(Some(p), r)) = Ok(call.iri)
              /\ ~OtherBaseIsPrefix(p, call.iri) )
            => ret = OkCurie(Curie(Some(p), r))

\* C2: default round trip.  Once a default base d is set, for every r without
\* a colon shrink_iri of the expansion d + r of Curie(None, r) returns
\* Ok(Curie(None, r)), whatever prefixes are registered.
C2_DefaultRoundTrip ==
    (call.op = "shrink_iri" /\ default.some) =>
        \A r \in Refs :
            ( /\ NoColon(r)
              /\ expand_curie(default, mapping, Curie(None, r)) = Ok(call.iri) )
            => ret = OkCurie(Curie(None, r))

\* C3: expand_curie_string(text) returns what expand_curie returns on the
\* split of text at its first colon, and never faults.
C3_StringExpansionIsSplitThenExpand ==
    call.op = "expand_curie_string" =>
        /\ ret.tag # "Panic"
        /\ ret = expand_curie(default, mapping, SplitAtFirstColon(call.curie_str))

\* C4: a present prefix (the empty one included) that is no key of the mapping
\* expands to Err(Invalid) whether or not a default base is set; the default
\* base is used only when the prefix is absent, and then the result is
\* default + reference, or Err(MissingDefault) without a default base.
C4_EmptyPrefixIsNotAbsent ==
    /\ call.op = "expand_curie" =>
          IF call.curie.prefix.some
          THEN /\ call.curie.prefix.v \notin DOMAIN mapping => ret = Err("Invalid")
               /\ ret.tag = "Ok" =>
                     /\ call.curie.prefix.v \in DOMAIN mapping
                     /\ ret.val = mapping[call.curie.prefix.v] \o call.curie.reference
          ELSE ret = IF default.some
                     THEN Ok(default.v \o call.curie.reference)
                     ELSE Err("MissingDefault")
    /\ (call.op = "expand_curie_string" /\ call.curie_str # <<>>
          /\ Head(call.curie_str) = COLON /\ <<>> \notin DOMAIN mapping)
          => ret = Err("Invalid")
    /\ (call.op = "expand_curie_string" /\ NoColon(call.curie_str))
          => ret = IF default.some
                   THEN Ok(default.v \o call.curie_str)
                   ELSE Err("MissingDefault")

C4_Witness ==
    /\ call.op = "expand_curie_string"
    /\ call.curie_str = <<COLON, "p">>
    /\ default.some
    /\ <<>> \notin DOMAIN mapping
    /\ mapping # <<>>
    /\ ret = Err("Invalid")

\* C5: add_prefix("_", v) returns Err(ReservedPrefix) and leaves the mapping
\* and the default base as they were; the key "_" is never in the mapping.
C5_ReservedPrefixRejected ==
    /\ RESERVED \notin DOMAIN mapping
    /\ (call.op = "add_prefix" /\ call.prefix = RESERVED) =>
          /\ ret = Err("ReservedPrefix")
          /\ mapping = pre.mapping
          /\ default = pre.default

C5_Witness ==
    /\ call.op = "add_prefix"
    /\ call.prefix = RESERVED
    /\ ret = Err("ReservedPrefix")
    /\ mapping # <<>>
    /\ default.some

\* C6: when shrink_iri(identifier) succeeds the matched base was removed once
\* from the front: expand_curie of the returned Curie is Ok(identifier).
C6_ShrinkThenExpand ==
    (call.op = "shrink_iri" /\ ret.tag = "Ok") =>
        /\ ret.curie.prefix.some => ret.curie.prefix.v \in DOMAIN mapping
        /\ expand_curie(default, mapping, ret.curie) = Ok(call.iri)

\* The text name ":" r uses name as its prefix.
UsesPrefix(text, name) ==
    /\ NoColon(name)
    /\ Len(text) > Len(name)
    /\ SubSeq(text, 1, Len(name)) = name
    /\ text[Len(name) + 1] = COLON

\* C7: remove_prefix(name) never errors, leaves no mapping for name and every
\* other mapping and the default base unchanged; a name enters the mapping
\* only by a successful add_prefix(name, _); and after remove_prefix(name)
\* an expand_curie or expand_curie_string call that uses name as its prefix
\* returns Err(Invalid).
C7_RemovedPrefixIsInvalid ==
    [][ /\ call'.op = "remove_prefix" =>
            /\ ret' = Unit
            /\ DOMAIN mapping' = (DOMAIN mapping) \ {call'.prefix}
            /\ \A n \in DOMAIN mapping' : mapping'[n] = mapping[n]
            /\ default' = default
        /\ \A n \in (DOMAIN mapping') \ (DOMAIN mapping) :
            /\ call'.op = "add_prefix"
            /\ call'.prefix = n
            /\ ret' = Ok(<<>>)
        /\ (call.op = "remove_prefix" /\ call'.op = "expand_curie"
              /\ call'.curie.prefix = Some(call.prefix))
            => ret' = Err("Invalid")
        /\ (call.op = "remove_prefix" /\ call'.op = "expand_curie_string"
              /\ UsesPrefix(call'.curie_str, call.prefix))
            => ret' = Err("Invalid")
      ]_vars

\* C8: add_prefix(name, base2) on a name other than "_" succeeds, also when
\* name is already mapped (to base1): afterwards name is mapped to base2, the
\* other mappings and the default base are as before, and an expansion with
\* prefix name yields base2 + reference.
C8_LastWriteWins ==
    /\ (call.op = "add_prefix" /\ call.prefix # RESERVED) =>
          /\ ret = Ok(<<>>)
          /\ DOMAIN mapping = (DOMAIN pre.mapping) \cup {call.prefix}
          /\ mapping[call.prefix] = call.value
          /\ \A n \in (DOMAIN mapping) \ {call.prefix} : mapping[n] = pre.mapping[n]
          /\ default = pre.default
    /\ (call.op = "expand_curie" /\ call.curie.prefix.some
          /\ call.curie.prefix.v \in DOMAIN mapping)
          => ret = Ok(mapping[call.curie.prefix.v] \o call.curie.reference)

C8_Witness ==
    /\ call.op = "add_prefix"
    /\ call.prefix \in DOMAIN pre.mapping
    /\ pre.mapping[call.prefix] # call.value
    /\ Cardinality(DOMAIN pre.mapping) = 2
    /\ ret = Ok(<<>>)
    /\ mapping[call.prefix] = call.value

\* C9: shrink_iri(identifier) returns an error exactly when neither the
\* default base (if set) nor any registered base is a prefix of identifier.
C9_ShrinkErrorIffNoMatch ==
    call.op = "shrink_iri" =>
        /\ ret.tag \in {"Ok", "Err"}
        /\ ret.tag = "Err" <=>
              /\ ~(default.some /\ StartsWith(call.iri, default.v))
              /\ \A n \in DOMAIN mapping : ~StartsWith(call.iri, mapping[n])

C9_Witness ==
    /\ call.op = "shrink_iri"
    /\ ret.tag = "Err"
    /\ default.some
    /\ Cardinality(DOMAIN mapping) = 2
    /\ call.iri # <<>>

\* C10: when the default base is set and is a prefix of identifier,
\* shrink_iri returns a Curie with absent prefix even if registered bases are
\* prefixes too; a Curie with a present prefix is returned only when the
\* default base is unset or no prefix of identifier, and its prefix is then a
\* registered name whose base is a prefix of identifier.
C10_DefaultTakesPrecedence ==
    call.op = "shrink_iri" =>
        /\ (default.some /\ StartsWith(call.iri, default.v)) =>
              /\ ret.tag = "Ok"
              /\ ret.curie.prefix = None
        /\ (ret.tag = "Ok" /\ ret.curie.prefix.some) =>
              /\ ~(default.some /\ StartsWith(call.iri, default.v))
              /\ ret.curie.prefix.v \in DOMAIN mapping
              /\ StartsWith(call.iri, mapping[ret.curie.prefix.v])

C10_Witness ==
    /\ call.op = "shrink_iri"
    /\ default.some
    /\ default.v # <<>>
    /\ StartsWith(call.iri, default.v)
    /\ \E n \in DOMAIN mapping : mapping[n] # <<>> /\ StartsWith(call.iri, mapping[n])
    /\ ret.tag = "Ok"
    /\ ret.curie.prefix = None

====
